---- MODULE Spec2Model ----
(***************************************************************************)
(* The Exact Data Match engine of agent/src/dlp.rs: a concurrent           *)
(* fingerprint store (digest -> (rule_id, severity)) and the scan engine   *)
(* that hashes overlapping 64-byte windows of a buffer and looks each      *)
(* digest up in the store.                                                 *)
(***************************************************************************)
EXTENDS Integers, Sequences, FiniteSets, TLC

\* dlp.rs:14 and dlp.rs:17
CHUNK_SIZE == 64
MIN_SCAN_SIZE == 128

\* ---------------------------------------------------------------- bounds
\* Longest scanned buffer, counted in CHUNK_SIZE blocks after the header.
MaxBlocks == 2
\* Longest buffer given to the pre-filter, counted in runs of equal bytes.
MaxRuns == 2

\* The calls of scan_buffer a collector makes on one buffer.
MaxCalls == 2

\* ---------------------------------------------------------------- inputs
\* A run of n equal bytes.
Run(b, n) == [i \in 1..n |-> b]

\* Byte values the blocks of the scanned buffers are made of: NUL and 'A'.
Bytes == {0, 65}

\* Length of the text that precedes the first block ("Some header text
\* here... " of tests/integration_dlp.rs is 25 bytes long); 'h' is 104.
HeaderLens == {0, 25}
Header(n) == Run(104, n)

RECURSIVE Blocks(_)
\* Concatenation of one CHUNK_SIZE run per byte of bs.
Blocks(bs) ==
    IF bs = <<>> THEN <<>> ELSE Run(Head(bs), CHUNK_SIZE) \o Blocks(Tail(bs))

\* The buffers handed to scan_buffer.
Buffers ==
    { Header(h) \o Blocks(bs) :
        h \in HeaderLens, bs \in UNION { [1..n -> Bytes] : n \in 0..MaxBlocks } }

\* Byte values and run lengths of the buffers handed to should_scan:
\* NUL, space, 'A'; lengths on both sides of CHUNK_SIZE and MIN_SCAN_SIZE.
FilterBytes == {0, 32, 65}
RunLens == {1, 63, 64, 127, 128}

RECURSIVE Runs(_)
\* Concatenation of the runs rs, each << byte, length >>.
Runs(rs) ==
    IF rs = <<>> THEN <<>> ELSE Run(Head(rs)[1], Head(rs)[2]) \o Runs(Tail(rs))

FilterBuffers ==
    { Runs(rs) : rs \in UNION { [1..n -> FilterBytes \X RunLens] : n \in 0..MaxRuns } }

\* ------------------------------------------------------------- data model
\* dlp.rs:21-26, the enum with its discriminants.
Severity == [Low |-> 1, Medium |-> 2, High |-> 3, Critical |-> 4]

\* The (rule_id, severity) pairs add_fingerprint is called with, those of
\* test_multiple_patterns_in_buffer.
Labels == { <<"PATTERN_ALPHA", "High">>, <<"PATTERN_BETA", "Critical">> }

\* dlp.rs:30-35
DlpMatch(rule_id, severity, matched_hash, offset) ==
    [rule_id |-> rule_id, severity |-> severity,
     matched_hash |-> matched_hash, offset |-> offset]

\* ---------------------------------------------------------------- hashing
HexDigit == <<"0", "1", "2", "3", "4", "5", "6", "7",
              "8", "9", "a", "b", "c", "d", "e", "f">>

RECURSIVE hex_encode(_)
\* hex::encode: two lowercase hexadecimal characters per byte.
hex_encode(bytes) ==
    IF bytes = <<>> THEN ""
    ELSE HexDigit[(Head(bytes) \div 16) + 1] \o HexDigit[(Head(bytes) % 16) + 1]
         \o hex_encode(Tail(bytes))

\* One byte absorbed into the chaining value h: a polynomial checksum
\* modulo a prime below 2^15, the stand-in for the compression function.
Mix(h, b, mult) == (h * mult + b + 1) % 32749

\* The leaf of the hash tree: the eight bytes chunk[i..i+7] absorbed in order.
MixBlock(chunk, i, mult) ==
    Mix(Mix(Mix(Mix(Mix(Mix(Mix(Mix(0, chunk[i], mult), chunk[i + 1], mult),
        chunk[i + 2], mult), chunk[i + 3], mult), chunk[i + 4], mult),
        chunk[i + 5], mult), chunk[i + 6], mult), chunk[i + 7], mult)

\* mult^2 and mult^n modulo the prime.
Square(m) == (m * m) % 32749

RECURSIVE PowMod(_, _)
PowMod(mult, n) ==
    IF n = 0 THEN 1
    ELSE IF n % 2 = 0 THEN Square(PowMod(mult, n \div 2))
    ELSE (mult * PowMod(mult, n - 1)) % 32749

RECURSIVE Absorb(_, _, _, _)
\* Hasher::update over chunk[lo..hi]: the checksum of the range.
\* Eight-byte leaves are absorbed whole; a longer range is split in two
\* halves whose values are combined, as the tree hash does.
Absorb(chunk, lo, hi, mult) ==
    IF lo > hi THEN 0
    ELSE IF lo = hi THEN Mix(0, chunk[lo], mult)
    ELSE IF hi - lo = 7 THEN MixBlock(chunk, lo, mult)
    ELSE (Absorb(chunk, lo, lo + ((hi - lo + 1) \div 2) - 1, mult)
              * PowMod(mult, hi - (lo + ((hi - lo + 1) \div 2) - 1))
          + Absorb(chunk, lo + ((hi - lo + 1) \div 2), hi, mult)) % 32749

\* Hasher::finalize: the digest as bytes, most significant first.
DigestBytes(h) == << h \div 256, h % 256 >>

\* blake3::Hasher::new / update / finalize
Blake3(chunk) == DigestBytes(Absorb(chunk, 1, Len(chunk), 131))
\* sha2::Sha256::new / update / finalize
Sha256(chunk) == DigestBytes(Absorb(chunk, 1, Len(chunk), 257))

\* dlp.rs:53, the field set by DlpEngine::new
use_blake3 == TRUE

\* dlp.rs:154-166
hash_chunk(chunk) ==
    CHOOSE hex \in { hex_encode(hash) :
                        hash \in { IF use_blake3 THEN Blake3(c) ELSE Sha256(c) : c \in {chunk} } } : TRUE

\* &buffer[offset..offset + CHUNK_SIZE]
Window(buf, offset) == SubSeq(buf, offset + 1, offset + CHUNK_SIZE)

\* ---------------------------------------------------------------- state
VARIABLES
    fingerprints,   \* the DashMap: a function digest -> <<rule_id, severity>>
    buffer,         \* the buffer the collector hands to the engine
    pc,             \* per scanning thread: where it is in its call
    offset,         \* per thread: scan_buffer's local `offset`
    matches,        \* per thread: scan_buffer's local `matches`
    result,         \* per thread: the value the last finished call returned
    filter,         \* per thread: << >>, or << b >> once should_scan returned b
    quiet,          \* per thread: no record was written since its scan began
    last_add,       \* << >>, or the << hash, label >> of the latest add_fingerprint
    touched,        \* per thread: the digests written since its call, now in the loop, began
    prev,           \* per thread: the calls it finished before the current one
    held,           \* per thread: the shards whose read guard it holds
    writer,         \* per inserting thread: where it is in add_fingerprint, and its arguments
    shard_of,       \* the shard DashMap's hasher puts each digest in
    added           \* the digests of the inserts that have returned

vars == << fingerprints, buffer, pc, offset, matches, result, filter, quiet, last_add,
          touched, prev, held, writer, shard_of, added >>

Threads == DOMAIN pc

\* The threads that insert while others scan.
Writers == DOMAIN writer

\* The lock state of the store.
locks == << held, writer, shard_of >>

\* ------------------------------------------------------ fingerprint store
\* Mutant of MapInsert: the insert replaces the whole map by the new record.
MapInsert_Lossy(map, key, value) == [k \in {key} |-> value]

\* Mutant of MapInsert: the first writer wins (entry().or_insert).
MapInsert_KeepExisting(map, key, value) ==
    [k \in DOMAIN map \cup {key} |-> IF k \in DOMAIN map THEN map[k] ELSE value]

\* DashMap::insert: add the key or replace the value it maps to.
MapInsert(map, key, value) ==
    [k \in DOMAIN map \cup {key} |-> IF k = key THEN value ELSE map[k]]

\* Mutant of add_fingerprint: the record is keyed by the rule, not the digest.
add_fingerprint_KeyedByRule(map, hash, rule_id, severity) ==
    MapInsert(map, rule_id, << hash, severity >>)

\* dlp.rs:88-90
add_fingerprint(map, hash, rule_id, severity) ==
    MapInsert(map, hash, << rule_id, severity >>)

\* dlp.rs:93-95
fingerprint_count == Cardinality(DOMAIN fingerprints)

\* dlp.rs:62-85: the two built-in records, inserted one after the other.
load_fingerprints_from_policy(map) ==
    add_fingerprint(add_fingerprint(map, "deadbeef0000", "TEST_SSN", "High"),
                    "cafebabe0000", "TEST_CCN", "Critical")

\* ------------------------------------------------------------- pre-filter
RECURSIVE CountNonPadding(_, _, _)
\* buffer.iter().filter(|&&b| b != 0 && b != b' ').count() over buf[lo..hi]
CountNonPadding(buf, lo, hi) ==
    IF lo > hi THEN 0
    ELSE IF lo = hi THEN (IF buf[lo] # 0 /\ buf[lo] # 32 THEN 1 ELSE 0)
    ELSE LET mid == (lo + hi) \div 2
         IN  CountNonPadding(buf, lo, mid) + CountNonPadding(buf, mid + 1, hi)

\* Mutant of should_scan: only NUL bytes count as padding.
should_scan_CountsSpaces(buf) ==
    IF Len(buf) < MIN_SCAN_SIZE THEN FALSE
    ELSE IF Cardinality({ i \in 1..Len(buf) : buf[i] # 0 }) < MIN_SCAN_SIZE \div 2 THEN FALSE
    ELSE TRUE

\* dlp.rs:182-194
should_scan(buf) ==
    IF Len(buf) < MIN_SCAN_SIZE THEN FALSE
    ELSE IF CountNonPadding(buf, 1, Len(buf)) < MIN_SCAN_SIZE \div 2 THEN FALSE
    ELSE TRUE

\* ------------------------------------------------------------ scan_buffer
\* Mutant of TooSmall: the early return tests CHUNK_SIZE.
TooSmall_ChunkSize(buf) == Len(buf) < CHUNK_SIZE

\* dlp.rs:106, the early return
TooSmall(buf) == Len(buf) < MIN_SCAN_SIZE

\* dlp.rs:114
overlap == CHUNK_SIZE \div 2

\* Mutant of WindowFits: a window that ends at the last byte does not fit.
WindowFits_Strict(buf, off) == off + CHUNK_SIZE < Len(buf)

\* dlp.rs:117, the loop condition
WindowFits(buf, off) == off + CHUNK_SIZE <= Len(buf)

\* Mutant of LookupAndPush: the match records the chunk index, not the byte
\* offset.
LookupAndPush_ChunkIndex(ms, map, buf, off) ==
    LET chunk_hash == hash_chunk(Window(buf, off)) IN
    IF chunk_hash \in DOMAIN map
    THEN Append(ms, DlpMatch(map[chunk_hash][1], map[chunk_hash][2], chunk_hash,
                             off \div (CHUNK_SIZE \div 2)))
    ELSE ms

\* Mutant of LookupAndPush: the match is put at the front of the sequence.
LookupAndPush_Prepend(ms, map, buf, off) ==
    LET chunk_hash == hash_chunk(Window(buf, off)) IN
    IF chunk_hash \in DOMAIN map
    THEN << DlpMatch(map[chunk_hash][1], map[chunk_hash][2], chunk_hash, off) >> \o ms
    ELSE ms

\* Mutant of LookupAndPush: a digest already among the matches is not
\* reported again.
LookupAndPush_SkipsRepeats(ms, map, buf, off) ==
    LET chunk_hash == hash_chunk(Window(buf, off)) IN
    IF chunk_hash \in DOMAIN map /\ \A i \in 1..Len(ms) : ms[i].matched_hash # chunk_hash
    THEN Append(ms, DlpMatch(map[chunk_hash][1], map[chunk_hash][2], chunk_hash, off))
    ELSE ms

\* dlp.rs:118-136: the matches after the window at off has been looked up
LookupAndPush(ms, map, buf, off) ==
    LET chunk_hash == hash_chunk(Window(buf, off)) IN
    IF chunk_hash \in DOMAIN map
    THEN Append(ms, DlpMatch(map[chunk_hash][1], map[chunk_hash][2], chunk_hash, off))
    ELSE ms

\* Mutant of Advance: the window rolls forward one byte at a time.
Advance_ByOne(off) == off + 1

\* Mutant of Advance: the windows do not overlap.
Advance_NoOverlap(off) == off + CHUNK_SIZE

\* dlp.rs:138
Advance(off) == off + overlap

\* ------------------------------------------------------------ the callers
\* Offsets at which a region of the buffer begins: the start of the buffer
\* and every place where the content changes, with a full window after it.
RegionStarts(buf) ==
    { k \in 0..(Len(buf) - CHUNK_SIZE) : k = 0 \/ buf[k] # buf[k + 1] }

\* The digests provisioning computes from the data (hash_chunk of a region,
\* as the tests do before add_fingerprint).
RegionDigests(buf) == { hash_chunk(Window(buf, k)) : k \in RegionStarts(buf) }

\* -------------------------------------------------------------- actions
InitEngine(bufs, threads) ==
    /\ fingerprints = [h \in {} |-> << >>]
    /\ buffer \in bufs
    /\ pc = [t \in threads |-> "idle"]
    /\ offset = [t \in threads |-> 0]
    /\ matches = [t \in threads |-> << >>]
    /\ result = [t \in threads |-> << >>]
    /\ filter = [t \in threads |-> << >>]
    /\ quiet = [t \in threads |-> TRUE]
    /\ last_add = << >>
    /\ touched = [t \in threads |-> {}]
    /\ prev = [t \in threads |-> << >>]
    /\ held = [t \in threads |-> << >>]
    /\ added = {}

\* One collector at a time: no insert overlaps a lookup, the locks play no part.
InitWith(bufs, threads) ==
    /\ InitEngine(bufs, threads)
    /\ writer = [w \in {} |-> << >>]
    /\ shard_of = [d \in {} |-> 0]

Init == InitWith(Buffers, {1})

\* What a write of the store does to the history variable: the calls that
\* have begun are no longer scans of an unchanging store.
Disturb(map) ==
    [t \in Threads |-> IF map # fingerprints /\ pc[t] # "idle" THEN FALSE ELSE quiet[t]]

\* What a write of the digests keys does to the history variable: they are
\* written during every call that is in its loop.
Touch(keys) ==
    [t \in Threads |-> IF pc[t] = "scan" THEN touched[t] \cup keys ELSE touched[t]]

\* The provisioning collaborator inserts one record: dlp.rs:88-90
AddFingerprint(hash, label) ==
    /\ fingerprints' = add_fingerprint(fingerprints, hash, label[1], label[2])
    /\ quiet' = Disturb(fingerprints')
    /\ last_add' = << hash, label >>
    /\ touched' = Touch({hash})
    /\ added' = added \cup {hash}
    /\ UNCHANGED << buffer, pc, offset, matches, result, filter, prev >>
    /\ UNCHANGED locks

\* Bootstrap provisioning, once: dlp.rs:62-85
LoadPolicy ==
    /\ "cafebabe0000" \notin DOMAIN fingerprints
    /\ fingerprints' = load_fingerprints_from_policy(fingerprints)
    /\ quiet' = Disturb(fingerprints')
    /\ last_add' = << "cafebabe0000", << "TEST_CCN", "Critical" >> >>
    /\ touched' = Touch({"deadbeef0000", "cafebabe0000"})
    /\ added' = added \cup {"deadbeef0000", "cafebabe0000"}
    /\ UNCHANGED << buffer, pc, offset, matches, result, filter, prev >>
    /\ UNCHANGED locks

\* A collector evaluates the pre-filter on its buffer: dlp.rs:182-194
ShouldScan(t) ==
    /\ pc[t] = "idle"
    /\ filter[t] = << >>
    /\ filter' = [filter EXCEPT ![t] = << should_scan(buffer) >>]
    /\ UNCHANGED << fingerprints, buffer, pc, offset, matches, result, quiet, last_add,
                    touched, prev, added >>
    /\ UNCHANGED locks

\* Mutant of ScanEnter: the vector of matches outlives the call.
ScanEnter_ReusesVec(t) ==
    /\ IF TooSmall(buffer)
       THEN /\ pc' = [pc EXCEPT ![t] = "returned"]
            /\ result' = [result EXCEPT ![t] = << >>]
            /\ UNCHANGED << matches, offset >>
       ELSE /\ pc' = [pc EXCEPT ![t] = "scan"]
            /\ offset' = [offset EXCEPT ![t] = 0]
            /\ UNCHANGED << matches, result >>
    /\ quiet' = [quiet EXCEPT ![t] = TRUE]
    /\ touched' = [touched EXCEPT ![t] = {}]
    /\ UNCHANGED << fingerprints, buffer, filter, last_add, added >>
    /\ UNCHANGED locks

\* scan_buffer up to the loop: dlp.rs:105-115
ScanEnter(t) ==
    /\ IF TooSmall(buffer)
       THEN /\ pc' = [pc EXCEPT ![t] = "returned"]
            /\ result' = [result EXCEPT ![t] = << >>]
            /\ UNCHANGED << matches, offset >>
       ELSE /\ pc' = [pc EXCEPT ![t] = "scan"]
            /\ matches' = [matches EXCEPT ![t] = << >>]
            /\ offset' = [offset EXCEPT ![t] = 0]
            /\ UNCHANGED result
    /\ quiet' = [quiet EXCEPT ![t] = TRUE]
    /\ touched' = [touched EXCEPT ![t] = {}]
    /\ UNCHANGED << fingerprints, buffer, filter, last_add, added >>
    /\ UNCHANGED locks

\* A collector's first call of scan_buffer on its buffer.
ScanBegin(t) ==
    /\ pc[t] = "idle"
    /\ ScanEnter(t)
    /\ UNCHANGED prev

\* The collector calls scan_buffer on the same buffer again; the call that
\* returned, and whether the store stayed as it was from its start until
\* now, are kept for comparison.
ScanAgain(t) ==
    /\ pc[t] = "returned"
    /\ Len(prev[t]) + 1 < MaxCalls
    /\ prev' = [prev EXCEPT ![t] = Append(prev[t], [result |-> result[t], quiet |-> quiet[t]])]
    /\ ScanEnter(t)

\* Mutant of ScanWindow: the lookup takes the record out of the store
\* (DashMap::remove in place of DashMap::get).
ScanWindow_Evicts(t) ==
    /\ pc[t] = "scan"
    /\ WindowFits(buffer, offset[t])
    /\ matches' = [matches EXCEPT
                     ![t] = LookupAndPush(matches[t], fingerprints, buffer, offset[t])]
    /\ offset' = [offset EXCEPT ![t] = Advance(offset[t])]
    /\ fingerprints' = [h \in DOMAIN fingerprints \ {hash_chunk(Window(buffer, offset[t]))}
                          |-> fingerprints[h]]
    /\ UNCHANGED << buffer, pc, result, filter, quiet, last_add, touched, prev, added >>
    /\ UNCHANGED locks

\* One iteration of the loop: dlp.rs:117-139
ScanWindow(t) ==
    /\ pc[t] = "scan"
    /\ WindowFits(buffer, offset[t])
    /\ matches' = [matches EXCEPT
                     ![t] = LookupAndPush(matches[t], fingerprints, buffer, offset[t])]
    /\ offset' = [offset EXCEPT ![t] = Advance(offset[t])]
    /\ UNCHANGED << fingerprints, buffer, pc, result, filter, quiet, last_add,
                    touched, prev, added >>
    /\ UNCHANGED locks

\* The loop ends and scan_buffer returns: dlp.rs:141-149
ScanReturn(t) ==
    /\ pc[t] = "scan"
    /\ ~WindowFits(buffer, offset[t])
    /\ result' = [result EXCEPT ![t] = matches[t]]
    /\ pc' = [pc EXCEPT ![t] = "returned"]
    /\ touched' = [touched EXCEPT ![t] = {}]
    /\ UNCHANGED << fingerprints, buffer, offset, matches, filter, quiet, last_add, prev, added >>
    /\ UNCHANGED locks

\* --------------------------------------- the store's locks (DashMap shards)
\* The shards of the map; DashMap's hasher decides where a digest goes.
Shards == {0, 1}

\* The digests the shards are chosen for: those provisioned and those the
\* scan looks up.
ConcKeys(buf) ==
    RegionDigests(buf) \cup
    { hash_chunk(Window(buf, k)) :
        k \in { j \in 0..(Len(buf) - CHUNK_SIZE) : j % overlap = 0 } }

\* Mutant of WriteLocked: a lookup does not wait for the insert to finish.
WriteLocked_Never(s) == FALSE

\* dlp.rs:89: DashMap::insert holds the write lock of the digest's shard
\* while it writes the record.
WriteLocked(s) ==
    \E w \in Writers : writer[w].pc = "writing" /\ shard_of[writer[w].hash] = s

\* dlp.rs:123-136: the Ref returned by DashMap::get is a read guard of the
\* digest's shard, alive in the body of the `if let`.
ReadLocked(s) ==
    \E t \in Threads : \E i \in 1..Len(held[t]) : held[t][i] = s

\* Mutant of Release: the guard outlives the iteration.
Release_Leaks(h) == h

\* dlp.rs:136: `entry` goes out of scope at the end of the `if let` body.
Release(h) == SubSeq(h, 1, Len(h) - 1)

\* add_fingerprint, dlp.rs:88-90, first half: the shard is locked for
\* writing and the rule_id of the record is written.
InsertStart(w, hash, label) ==
    /\ writer[w].pc = "idle"
    /\ ~WriteLocked(shard_of[hash])
    /\ ~ReadLocked(shard_of[hash])
    /\ writer' = [writer EXCEPT ![w] = [pc |-> "writing", hash |-> hash, label |-> label]]
    /\ fingerprints' =
           MapInsert(fingerprints, hash,
                     << label[1],
                        IF hash \in DOMAIN fingerprints THEN fingerprints[hash][2] ELSE "Unset" >>)
    /\ quiet' = Disturb(fingerprints')
    /\ touched' = Touch({hash})
    /\ UNCHANGED << buffer, pc, offset, matches, result, filter, last_add, prev,
                    held, shard_of, added >>

\* add_fingerprint, second half: the severity is written, the lock is
\* released and the call returns.
InsertFinish(w) ==
    /\ writer[w].pc = "writing"
    /\ fingerprints' = add_fingerprint(fingerprints, writer[w].hash,
                                       writer[w].label[1], writer[w].label[2])
    /\ writer' = [writer EXCEPT ![w].pc = "done"]
    /\ quiet' = Disturb(fingerprints')
    /\ touched' = Touch({writer[w].hash})
    /\ last_add' = << writer[w].hash, writer[w].label >>
    /\ added' = added \cup {writer[w].hash}
    /\ UNCHANGED << buffer, pc, offset, matches, result, filter, prev, held, shard_of >>

\* One iteration whose lookup finds nothing: dlp.rs:117-123, 138. The
\* lookup waits while the shard is locked for writing.
ScanMiss(t) ==
    /\ pc[t] = "scan"
    /\ WindowFits(buffer, offset[t])
    /\ \E chunk_hash \in {hash_chunk(Window(buffer, offset[t]))} :
           /\ ~WriteLocked(shard_of[chunk_hash])
           /\ chunk_hash \notin DOMAIN fingerprints
    /\ ScanWindow(t)

\* The lookup finds the digest and returns the guard: dlp.rs:123
ScanGet(t) ==
    /\ pc[t] = "scan"
    /\ WindowFits(buffer, offset[t])
    /\ \E chunk_hash \in {hash_chunk(Window(buffer, offset[t]))} :
           /\ ~WriteLocked(shard_of[chunk_hash])
           /\ chunk_hash \in DOMAIN fingerprints
           /\ held' = [held EXCEPT ![t] = Append(@, shard_of[chunk_hash])]
    /\ pc' = [pc EXCEPT ![t] = "hit"]
    /\ UNCHANGED << fingerprints, buffer, offset, matches, result, filter, quiet, last_add,
                    touched, prev, writer, shard_of, added >>

\* The record is read under the guard and pushed, the guard is dropped,
\* the offset moves on: dlp.rs:124-138
ScanPush(t) ==
    /\ pc[t] = "hit"
    /\ matches' = [matches EXCEPT
                     ![t] = LookupAndPush(matches[t], fingerprints, buffer, offset[t])]
    /\ offset' = [offset EXCEPT ![t] = Advance(offset[t])]
    /\ held' = [held EXCEPT ![t] = Release(@)]
    /\ pc' = [pc EXCEPT ![t] = "scan"]
    /\ UNCHANGED << fingerprints, buffer, result, filter, quiet, last_add,
                    touched, prev, writer, shard_of, added >>

\* One scan of one buffer, with records provisioned before, during and
\* after it.
Next ==
    \/ \E hash \in RegionDigests(buffer), label \in Labels : AddFingerprint(hash, label)
    \/ \E t \in Threads : ScanBegin(t)
    \/ \E t \in Threads : ScanWindow(t)
    \/ \E t \in Threads : ScanReturn(t)

Spec == Init /\ [][Next]_vars

\* The pre-filter alone, applied to every buffer of FilterBuffers.
InitFilter == InitWith(FilterBuffers, {1})
NextFilter == \E t \in Threads : ShouldScan(t)
SpecFilter == InitFilter /\ [][NextFilter]_vars

\* Every operation of the engine on the buffers of at most one scan's
\* minimum size: bootstrap and single provisioning, the pre-filter, a scan.
OperationBuffers == { b \in Buffers : Len(b) <= MIN_SCAN_SIZE }
InitOperations == InitWith(OperationBuffers, {1})
NextOperations ==
    \/ Next
    \/ LoadPolicy
    \/ \E t \in Threads : ShouldScan(t)
SpecOperations == InitOperations /\ [][NextOperations]_vars

\* A collector scans the same buffer of MIN_SCAN_SIZE bytes up to MaxCalls
\* times, with records provisioned before, during, between and
\* after the calls.
RepeatBuffers == { b \in Buffers : Len(b) = MIN_SCAN_SIZE }
InitRepeat == InitWith(RepeatBuffers, {1})
NextRepeat ==
    \/ Next
    \/ \E t \in Threads : ScanAgain(t)
SpecRepeat == InitRepeat /\ [][NextRepeat]_vars

\* Collectors scan a buffer while other threads insert, each step taking
\* and releasing the locks of the store. The shards being interchangeable,
\* the digest of the first window is in shard 0.
Scanners == {1, 2}
Inserters == {1, 2}
\* The record each inserting thread writes.
LabelOf(w) == IF w = 1 THEN << "PATTERN_ALPHA", "High" >> ELSE << "PATTERN_BETA", "Critical" >>
ConcBuffers == { Header(h) \o Run(65, MIN_SCAN_SIZE) : h \in HeaderLens }
InitConcWith(threads) ==
    /\ InitEngine(ConcBuffers, threads)
    /\ writer = [w \in Inserters |-> [pc |-> "idle"]]
    /\ shard_of \in { f \in [ConcKeys(buffer) -> Shards] : f[hash_chunk(Window(buffer, 0))] = 0 }
InitConc == InitConcWith(Scanners)
ScannerStep(t) ==
    \/ ScanBegin(t)
    \/ ScanMiss(t)
    \/ ScanGet(t)
    \/ ScanPush(t)
    \/ ScanReturn(t)
InserterStep(w) ==
    \/ \E hash \in DOMAIN shard_of : InsertStart(w, hash, LabelOf(w))
    \/ InsertFinish(w)
NextConc ==
    \/ \E t \in Threads : ScanBegin(t)
    \/ \E t \in Threads : ScanMiss(t)
    \/ \E t \in Threads : ScanGet(t)
    \/ \E t \in Threads : ScanPush(t)
    \/ \E t \in Threads : ScanReturn(t)
    \/ \E w \in Writers, hash \in DOMAIN shard_of : InsertStart(w, hash, LabelOf(w))
    \/ \E w \in Writers : InsertFinish(w)
SpecConc == InitConc /\ [][NextConc]_vars

\* One collector and the inserting threads, where the scheduler lets every
\* thread that can take a step take one.
FairScanners == {1}
SpecConcFair ==
    /\ InitConcWith(FairScanners)
    /\ [][NextConc]_vars
    /\ \A t \in FairScanners : WF_vars(ScannerStep(t))
    /\ \A w \in Inserters : WF_vars(InserterStep(w))

\* One scan of a buffer of 'A's of up to MIN_SCAN_SIZE bytes, with or
\* without the header, where the scheduler lets the scanning thread run.
TerminationBuffers ==
    { Header(h) \o Run(65, n * CHUNK_SIZE) :
        h \in HeaderLens, n \in 1..(MIN_SCAN_SIZE \div CHUNK_SIZE) }
SpecScanFair ==
    /\ InitWith(TerminationBuffers, FairScanners)
    /\ [][Next]_vars
    /\ \A t \in FairScanners : WF_vars(ScanWindow(t) \/ ScanReturn(t))

\* ================================================================ claims
\* The digest of the window of buf that begins at byte offset k.
DigestAt(buf, k) == hash_chunk(Window(buf, k))

\* Every byte offset at which a full window of buf begins.
WindowOffsets(buf) == 0..(Len(buf) - 64)

\* The offsets among them that are multiples of the 32-byte stride.
StrideOffsets(buf) == { k \in WindowOffsets(buf) : k % 32 = 0 }

\* The bytes of buf that are neither NUL nor space, by position.
NonPadding(buf) == { i \in 1..Len(buf) : buf[i] # 0 /\ buf[i] # 32 }

\* The positions of the match sequence ms.
Indices(ms) == 1..Len(ms)

\* C1: whenever should_scan(buffer) is false, scan_buffer(buffer) returns
\* the empty sequence, whatever the store holds. (The code does not consult
\* the pre-filter in scan_buffer: 128 NUL bytes are scanned.)
C1_PrefilterShortCircuitsScan ==
    \A t \in Threads :
        (pc[t] = "returned" /\ ~should_scan(buffer)) => result[t] = << >>

C3_RegionDetectedAtAnyOffset ==
    \A t \in Threads :
        (pc[t] = "returned" /\ quiet[t] /\ should_scan(buffer)) =>
            \A k \in WindowOffsets(buffer) :
                DigestAt(buffer, k) \in DOMAIN fingerprints =>
                    \E i \in Indices(result[t]) :
                        /\ result[t][i].offset = k
                        /\ result[t][i].rule_id = fingerprints[DigestAt(buffer, k)][1]

\* C4: with a store that does not change during the call, the result of
\* scan_buffer on a buffer of at least 128 bytes holds, for every stride
\* offset k whose window's digest is a key of the store, a match with that
\* offset, that digest and the key's rule and severity; and it holds as many
\* matches as there are such offsets (equal digests are not deduplicated).
C4_StrideAlignedComplete ==
    \A t \in Threads :
        (pc[t] = "returned" /\ quiet[t] /\ Len(buffer) >= 128) =>
            LET hits == { k \in StrideOffsets(buffer) :
                            DigestAt(buffer, k) \in DOMAIN fingerprints }
            IN  /\ \A k \in hits :
                    \E i \in Indices(result[t]) :
                        result[t][i] =
                            [rule_id |-> fingerprints[DigestAt(buffer, k)][1],
                             severity |-> fingerprints[DigestAt(buffer, k)][2],
                             matched_hash |-> DigestAt(buffer, k),
                             offset |-> k]
                /\ Len(result[t]) = Cardinality(hits)

\* C4 witness: an undisturbed scan returned the same digest at two offsets.
C4_Witness ==
    \E t \in Threads :
        /\ pc[t] = "returned" /\ quiet[t]
        /\ Len(result[t]) >= 2
        /\ result[t][1].matched_hash = result[t][2].matched_hash
        /\ result[t][1].offset # result[t][2].offset

\* A match of thread t's scan: the digest is that of the window at the
\* match's offset.
MatchIsOfItsWindow(m) ==
    /\ m.offset \in WindowOffsets(buffer)
    /\ m.matched_hash = DigestAt(buffer, m.offset)

\* C5: every match carries the digest of the window at its offset, and the
\* rule and severity the store maps that digest to when the window is looked
\* up; if no scanned window's digest is a key of the store, the result is
\* empty.
C5_NoFalsePositives ==
    /\ [](\A t \in Threads :
            /\ \A i \in Indices(matches[t]) : MatchIsOfItsWindow(matches[t][i])
            /\ \A i \in Indices(result[t]) : MatchIsOfItsWindow(result[t][i])
            /\ (/\ pc[t] = "returned"
                /\ \A k \in StrideOffsets(buffer) :
                       DigestAt(buffer, k) \notin DOMAIN fingerprints)
               => result[t] = << >>)
    /\ [][\A t \in Threads :
            Len(matches'[t]) > Len(matches[t]) =>
                LET m == matches'[t][Len(matches'[t])]
                IN  /\ m.matched_hash \in DOMAIN fingerprints
                    /\ fingerprints[m.matched_hash] = << m.rule_id, m.severity >>
                    /\ m.offset = offset[t]]_vars

\* C5 witness: a scan returned matches while the store also holds a digest
\* that none of them carries.
C5_Witness ==
    \E t \in Threads :
        /\ pc[t] = "returned"
        /\ result[t] # << >>
        /\ \E d \in DOMAIN fingerprints :
               \A i \in Indices(result[t]) : result[t][i].matched_hash # d

\* C6: the matches accumulated by a scan are in strictly increasing offset
\* order at every step, and so is the returned sequence, whether or not
\* records are inserted while the scan runs.
C6_OffsetsStrictlyAscending ==
    \A t \in Threads :
        /\ \A i, j \in Indices(matches[t]) :
               i < j => matches[t][i].offset < matches[t][j].offset
        /\ \A i, j \in Indices(result[t]) :
               i < j => result[t][i].offset < result[t][j].offset

\* C6 witness: a scan that overlapped an insert returned two matches.
C6_Witness ==
    \E t \in Threads :
        /\ pc[t] = "returned" /\ ~quiet[t]
        /\ Len(result[t]) >= 2

C8_InformativeBufferIsScanned ==
    \A t \in Threads :
        (filter[t] # << >> /\ Cardinality(NonPadding(buffer)) >= 64) =>
            filter[t][1] = TRUE

\* C9: when the buffer holds a full first window whose digest was added
\* before the scan, scan_buffer returns a non-empty sequence whose first
\* match is at offset 0 with the rule and severity the digest was added
\* under. (The code returns nothing for a buffer of 64..127 bytes.)
C9_FirstWindowFingerprintIsReported ==
    \A t \in Threads :
        (/\ pc[t] = "returned" /\ quiet[t]
         /\ Len(buffer) >= 64
         /\ DigestAt(buffer, 0) \in DOMAIN fingerprints) =>
            /\ result[t] # << >>
            /\ result[t][1].offset = 0
            /\ << result[t][1].rule_id, result[t][1].severity >> =
                   fingerprints[DigestAt(buffer, 0)]

\* C10: an insert is last-writer-wins for its digest: after add_fingerprint
\* (hash, label) the store maps hash to label whatever it mapped it to
\* before, and inserting that record once more leaves the store as it is;
\* the insert leaves the other digests and their labels as they were, and
\* the count is unchanged when hash was already a key (one more otherwise).
C10_InsertIsLastWriterWins ==
    /\ [](last_add # << >> =>
            /\ last_add[1] \in DOMAIN fingerprints
            /\ fingerprints[last_add[1]] = last_add[2]
            /\ add_fingerprint(fingerprints, last_add[1], last_add[2][1], last_add[2][2])
                   = fingerprints)
    /\ [][last_add' # last_add =>
            /\ DOMAIN fingerprints' = DOMAIN fingerprints \cup {last_add'[1]}
            /\ \A d \in DOMAIN fingerprints \ {last_add'[1]} :
                   fingerprints'[d] = fingerprints[d]
            /\ fingerprint_count' =
                   fingerprint_count
                       + (IF last_add'[1] \in DOMAIN fingerprints THEN 0 ELSE 1)]_vars

\* C10 witness: one scan reported the same digest under two labels, so the
\* digest was inserted twice with different labels, and the store now holds
\* the label of the later insert while another digest is also a key.
C10_Witness ==
    \E t \in Threads :
        /\ Len(matches[t]) >= 2
        /\ matches[t][1].matched_hash = matches[t][2].matched_hash
        /\ matches[t][1].rule_id # matches[t][2].rule_id
        /\ last_add = << matches[t][2].matched_hash,
                        << matches[t][2].rule_id, matches[t][2].severity >> >>
        /\ fingerprint_count >= 2

\* C16: on a buffer of L >= 128 bytes scan_buffer examines the windows at
\* 0, 32, 64, ... up to the largest multiple of 32 that is <= L - 64, one
\* per iteration and in that order: the first window is at 0, every lookup
\* moves the offset on by 32, the loop is left only when no full window is
\* left, and every offset examined or reported is a multiple of 32 whose
\* window ends inside the buffer (the tail shorter than 64 is never hashed).
C16_WindowsAreTheStrideOffsets ==
    /\ [](\A t \in Threads :
            /\ pc[t] = "scan" =>
                   /\ Len(buffer) >= 128
                   /\ offset[t] % 32 = 0
                   /\ offset[t] > 0 => (offset[t] - 32) + 64 <= Len(buffer)
            /\ (pc[t] = "returned" /\ Len(buffer) >= 128) =>
                   /\ offset[t] % 32 = 0
                   /\ (offset[t] - 32) + 64 <= Len(buffer)
                   /\ offset[t] + 64 > Len(buffer)
            /\ \A i \in Indices(matches[t]) :
                   /\ matches[t][i].offset % 32 = 0
                   /\ matches[t][i].offset + 64 <= Len(buffer))
    /\ [][\A t \in Threads :
            /\ (pc[t] # "scan" /\ pc'[t] = "scan") => offset'[t] = 0
            /\ (pc[t] = "scan" /\ offset'[t] # offset[t]) =>
                   /\ offset[t] + 64 <= Len(buffer)
                   /\ offset'[t] = offset[t] + 32
            /\ (pc[t] = "scan" /\ matches'[t] # matches[t]) =>
                   /\ offset'[t] = offset[t] + 32
                   /\ matches'[t][Len(matches'[t])].offset = offset[t]
            /\ (pc[t] = "scan" /\ pc'[t] = "returned") =>
                   offset[t] + 64 > Len(buffer)]_vars

\* C16 witness: a scan of a buffer with a tail shorter than a window has
\* returned after reporting the last full window.
C16_Witness ==
    \E t \in Threads :
        /\ pc[t] = "returned"
        /\ Len(buffer) >= 128 /\ Len(buffer) % 32 # 0
        /\ result[t] # << >>
        /\ result[t][Len(result[t])].offset + 32 = offset[t]

\* C18: scan_buffer terminates: a call that is in the loop returns, each
\* iteration raises the offset by 32 and the offset never passes the end
\* of the buffer; for L >= 128 it returns after exactly
\* floor((L - 64) / 32) + 1 iterations, for L < 128 it performs none.
C18_ScanTerminatesAfterBoundedIterations ==
    /\ \A t \in FairScanners : (pc[t] = "scan") ~> (pc[t] = "returned")
    /\ [](\A t \in Threads :
            /\ pc[t] = "scan" => offset[t] <= Len(buffer)
            /\ (pc[t] = "returned" /\ Len(buffer) >= 128) =>
                   offset[t] = 32 * (((Len(buffer) - 64) \div 32) + 1)
            /\ Len(buffer) < 128 => (pc[t] # "scan" /\ offset[t] = 0))
    /\ [][\A t \in Threads :
            (pc[t] = "scan" /\ pc'[t] = "scan" /\ << offset[t], matches[t] >> # << offset'[t], matches'[t] >>)
                => offset'[t] = offset[t] + 32]_vars

\* C18 witness: a scan of a 153-byte buffer returned after 3 iterations.
C18_Witness ==
    \E t \in Threads :
        /\ pc[t] = "returned"
        /\ Len(buffer) = 153
        /\ offset[t] = 3 * 32

\* C19: a scan that reports a digest at offset k also reports it at every
\* later stride offset whose window has that digest, whatever inserts run
\* while it scans.
C19_LaterOccurrencesAreReported ==
    \A t \in Threads :
        pc[t] = "returned" =>
            \A i \in Indices(result[t]) :
                \A k \in StrideOffsets(buffer) :
                    (k > result[t][i].offset
                     /\ DigestAt(buffer, k) = result[t][i].matched_hash) =>
                        \E j \in Indices(result[t]) :
                            /\ result[t][j].offset = k
                            /\ result[t][j].matched_hash = result[t][i].matched_hash

\* C19 witness: a scan that overlapped an insert reports a digest at a later
\* stride offset and not at an earlier one where the window has that
\* digest, so it is the scan of no single state of the store.
C19_Witness ==
    \E t \in Threads :
        /\ pc[t] = "returned" /\ ~quiet[t]
        /\ result[t] # << >>
        /\ \E k \in StrideOffsets(buffer) :
               /\ k < result[t][1].offset
               /\ DigestAt(buffer, k) = result[t][1].matched_hash

\* C17: scan_buffer and should_scan leave the store as it is: a step of
\* either (the call's position, offset, matches, result or pre-filter
\* verdict changes) changes no key and no record; the store changes only
\* by add_fingerprint or load_fingerprints_from_policy, and then by what
\* they insert.
C17_OnlyProvisioningWritesTheStore ==
    /\ [][(\E t \in Threads :
              \/ pc'[t] # pc[t]
              \/ offset'[t] # offset[t]
              \/ matches'[t] # matches[t]
              \/ result'[t] # result[t]
              \/ filter'[t] # filter[t])
          => fingerprints' = fingerprints]_vars
    /\ [][fingerprints' # fingerprints =>
              \/ fingerprints' = load_fingerprints_from_policy(fingerprints)
              \/ \E hash \in RegionDigests(buffer), label \in Labels :
                     fingerprints' = add_fingerprint(fingerprints, hash, label[1], label[2])]_vars

\* C17 witness: the pre-filter ran and a scan returned a match, with the
\* bootstrap records and the matched record all in the store afterwards.
C17_Witness ==
    \E t \in Threads :
        /\ pc[t] = "returned"
        /\ filter[t] # << >>
        /\ result[t] # << >>
        /\ result[t][1].matched_hash \in DOMAIN fingerprints
        /\ "deadbeef0000" \in DOMAIN fingerprints
        /\ fingerprint_count = 3

InFlight == { writer[w].hash : w \in { v \in Writers : writer[v].pc = "writing" } }

\* C11: fingerprint_count is the number of distinct digests inserted: with
\* no insert in progress it is the number of distinct digests of the
\* inserts that returned, by whichever threads and in whichever order,
\* equal digests counted once; while inserts are in progress it lies
\* between that and the number with theirs added; and it never decreases.
C11_CountIsDistinctDigestsInserted ==
    /\ [](/\ added \subseteq DOMAIN fingerprints
          /\ DOMAIN fingerprints \subseteq added \cup InFlight
          /\ InFlight = {} => fingerprint_count = Cardinality(added))
    /\ [][Cardinality(DOMAIN fingerprints') >= Cardinality(DOMAIN fingerprints)]_vars

\* C11 witness: the inserts of two threads for the same digest have both
\* returned, a scan has returned, and the count is 1.
C11_Witness ==
    /\ \A w \in Writers : writer[w].pc = "done"
    /\ Cardinality(Writers) = 2
    /\ Cardinality(added) = 1
    /\ fingerprint_count = 1
    /\ \E t \in Threads : pc[t] = "returned"

\* The records add_fingerprint was called with for digest d, by the calls
\* that have begun.
WrittenFor(d) ==
    { writer[w].label : w \in { v \in Writers : writer[v].pc # "idle" /\ writer[v].hash = d } }

\* C12: every match of every scan, finished or not, carries a rule_id and a
\* severity that one call of add_fingerprint for the match's digest wrote
\* together.
C12_NoTornRecords ==
    \A t \in Threads :
        /\ \A i \in Indices(matches[t]) :
               << matches[t][i].rule_id, matches[t][i].severity >>
                   \in WrittenFor(matches[t][i].matched_hash)
        /\ \A i \in Indices(result[t]) :
               << result[t][i].rule_id, result[t][i].severity >>
                   \in WrittenFor(result[t][i].matched_hash)

\* C12 witness: a scan returned matches of one digest with the records of
\* two inserts, which differ in rule and in severity.
C12_Witness ==
    \E t \in Threads :
        /\ pc[t] = "returned"
        /\ Len(result[t]) >= 2
        /\ result[t][1].matched_hash = result[t][2].matched_hash
        /\ result[t][1].rule_id # result[t][2].rule_id
        /\ result[t][1].severity # result[t][2].severity

\* Every call has returned.
AllReturned ==
    /\ \A t \in Threads : pc[t] = "returned"
    /\ \A w \in Writers : writer[w].pc = "done"

====
